---- MODULE Spec2Model ----
(***************************************************************************)
(* Test Case Generator (app.py): the "Generate Test Cases" handler with    *)
(* its model-fallback loop, the category normaliser and the CSV export.    *)
(***************************************************************************)
EXTENDS Integers, Sequences, FiniteSets, TLC

\* ------------------------------------------------------------------ bounds
MaxTextLen == 4      \* tokens in one model response
MaxDocLen == 1       \* characters in one extracted document
MaxGroups == 3       \* raw groups handed to ensure_all_categories
MaxCsvGroups == 2    \* groups handed to export_to_csv
MaxCases == 2        \* test cases per group handed to export_to_csv
MaxClock == 1        \* largest epoch-millisecond reading

\* --------------------------------------------------------------- constants
CATEGORIES ==
  <<"Positive", "Negative", "Edge Cases", "Boundary",
    "Integration", "Performance", "Security", "Usability">>

models_to_try == <<"gemini-2.5-flash", "gemini-2.5-pro", "gemini-pro">>

CsvHeader ==
  <<"Category", "Title", "Description", "Steps", "Expected Result", "Priority">>

None == "<None>"

\* ----------------------------------------------------------------- helpers
SeqsUpTo(S, n) == UNION {[1..k -> S] : k \in 0..n}

\* dict.get(key, default)
Get(d, key, default) == IF key \in DOMAIN d THEN d[key] ELSE default

\* Variant of Falsy that tests only for None
FalsyOnlyNone(v) == v = None

\* Python truthiness of a credential value: None and '' are falsy
Falsy(v) == v = None \/ v = ""

\* ------------------------------------------------- str.strip() on documents
Whitespace == {" ", "\n"}

RECURSIVE LStrip(_)
LStrip(s) ==
  IF s # <<>> /\ Head(s) \in Whitespace THEN LStrip(Tail(s)) ELSE s

RECURSIVE RStrip(_)
RStrip(s) ==
  IF s # <<>> /\ s[Len(s)] \in Whitespace
  THEN RStrip(SubSeq(s, 1, Len(s) - 1)) ELSE s

Strip(s) == RStrip(LStrip(s))

\* Variant of IsBlank without the strip()
IsBlankNoStrip(prd_text) == prd_text = <<>>

\* line 264: not prd_text or not prd_text.strip()
IsBlank(prd_text) == prd_text = <<>> \/ Strip(prd_text) = <<>>

\* ------------------------------------------ response text and JSON parsing
\* A response text is a sequence of tokens: the JSON punctuation "[", "]",
\* ",", the token "g" (a JSON object literal describing one category group)
\* and the token "n" (a JSON number).  Tokens outside the outermost brackets
\* stand for the prose a model may put around its JSON.
Alphabet == {"[", "]", ",", "g", "n"}

Texts == SeqsUpTo(Alphabet, MaxTextLen)

GroupG == [category |-> "Positive", testCases |-> <<[title |-> "t"]>>]

PyDict(d) == [k |-> "dict", v |-> d]
PyList(l) == [k |-> "list", v |-> l]
PyNum(n) == [k |-> "num", v |-> n]

ParseFail == [ok |-> FALSE, val |-> PyList(<<>>), next |-> 0]

\* json.loads restricted to the token alphabet: value ::= g | n | [] | [v(,v)*]
RECURSIVE ParseValue(_, _), ParseElems(_, _, _)
ParseValue(t, i) ==
  IF i > Len(t) THEN ParseFail
  ELSE IF t[i] = "g" THEN [ok |-> TRUE, val |-> PyDict(GroupG), next |-> i + 1]
  ELSE IF t[i] = "n" THEN [ok |-> TRUE, val |-> PyNum(7), next |-> i + 1]
  ELSE IF t[i] = "["
       THEN IF i + 1 <= Len(t) /\ t[i + 1] = "]"
            THEN [ok |-> TRUE, val |-> PyList(<<>>), next |-> i + 2]
            ELSE ParseElems(t, i + 1, <<>>)
  ELSE ParseFail

ParseElems(t, i, acc) ==
  LET e == ParseValue(t, i) IN
  IF ~e.ok THEN ParseFail
  ELSE IF e.next > Len(t) THEN ParseFail
  ELSE IF t[e.next] = "," THEN ParseElems(t, e.next + 1, Append(acc, e.val))
  ELSE IF t[e.next] = "]"
       THEN [ok |-> TRUE, val |-> PyList(Append(acc, e.val)), next |-> e.next + 1]
  ELSE ParseFail

\* json.loads(text): the whole text must be one value; otherwise JSONDecodeError
JsonLoads(t) ==
  LET p == ParseValue(t, 1) IN
  IF p.ok /\ p.next = Len(t) + 1 THEN [ok |-> TRUE, val |-> p.val]
  ELSE [ok |-> FALSE, val |-> PyList(<<>>)]

\* re.search(r'\[[\s\S]*\]', text): leftmost "[" to the last "]" after it
ReSearch(t) ==
  LET opens == {i \in DOMAIN t : t[i] = "["}
      closes == {j \in DOMAIN t : t[j] = "]"}
  IN IF opens = {} \/ closes = {} THEN <<FALSE, <<>>>>
     ELSE LET i == CHOOSE a \in opens : \A b \in opens : a <= b
              j == CHOOSE a \in closes : \A b \in closes : a >= b
          IN IF j > i THEN <<TRUE, SubSeq(t, i, j)>> ELSE <<FALSE, <<>>>>

\* lines 149-154: parse the bracket match when there is one, else the text
ParseResponse(response_text) ==
  LET json_match == ReSearch(response_text) IN
  IF json_match[1] THEN JsonLoads(json_match[2]) ELSE JsonLoads(response_text)

\* Python truthiness of a parsed JSON value
Truthy(val) ==
  IF val.k = "list" THEN val.v # <<>>
  ELSE IF val.k = "dict" THEN DOMAIN val.v # {}
  ELSE val.v # 0

\* Variant of InvalidFormat without the emptiness test
InvalidFormatNoEmptyCheck(val) == val.k # "list"

\* line 156: not test_cases or not isinstance(test_cases, list)
InvalidFormat(val) == ~Truthy(val) \/ val.k # "list"

\* Outcomes of model.generate_content / response.text for one model
Outcomes ==
  {[kind |-> "raise", text |-> <<>>], [kind |-> "none", text |-> <<>>]}
    \cup {[kind |-> "text", text |-> t] : t \in Texts}

\* line 146 is reached when the response carries text
ResponseReceived(outcome) == outcome.kind = "text" /\ outcome.text # <<>>

\* lines 125-167: one iteration of the loop body, from the response on.
\* status "return" carries the value returned at line 159; any other status
\* is the failure reason stored in last_error.
TryModel(outcome) ==
  IF outcome.kind = "raise"
  THEN [status |-> "call_raised", val |-> PyList(<<>>)]
  ELSE IF outcome.kind = "none" \/ outcome.text = <<>>
  THEN [status |-> "empty_response", val |-> PyList(<<>>)]
  ELSE LET p == ParseResponse(outcome.text) IN
       IF ~p.ok THEN [status |-> "json_decode", val |-> PyList(<<>>)]
       ELSE IF InvalidFormat(p.val)
       THEN [status |-> "invalid_format", val |-> PyList(<<>>)]
       ELSE [status |-> "return", val |-> p.val]

\* The ways one iteration can end, over every outcome of the external call,
\* each with whether line 146 was reached
IterationResults ==
  {[r |-> TryModel(outcome), parsing |-> ResponseReceived(outcome)] : outcome \in Outcomes}

\* ------------------------------------------------- ensure_all_categories
\* line 173: dict comprehension keyed by group['category']; a later group
\* with the same key replaces the earlier one
CategoryMapHas(test_case_groups, category) ==
  \E i \in DOMAIN test_case_groups : test_case_groups[i]["category"] = category

\* Variant of CategoryMapGet that keeps the first group of a category
CategoryMapGetFirst(test_case_groups, category) ==
  LET i == CHOOSE a \in DOMAIN test_case_groups :
             /\ test_case_groups[a]["category"] = category
             /\ \A b \in DOMAIN test_case_groups :
                  test_case_groups[b]["category"] = category => a <= b
  IN test_case_groups[i]

CategoryMapGet(test_case_groups, category) ==
  LET i == CHOOSE a \in DOMAIN test_case_groups :
             /\ test_case_groups[a]["category"] = category
             /\ \A b \in DOMAIN test_case_groups :
                  test_case_groups[b]["category"] = category => b <= a
  IN test_case_groups[i]

\* Variant of CategoryMap whose added group has no testCases key
CategoryMapNoDefault(test_case_groups, category) ==
  IF CategoryMapHas(test_case_groups, category)
  THEN CategoryMapGet(test_case_groups, category)
  ELSE [category |-> category]

\* lines 176-181: the map after the missing categories were added
CategoryMap(test_case_groups, category) ==
  IF CategoryMapHas(test_case_groups, category)
  THEN CategoryMapGet(test_case_groups, category)
  ELSE [category |-> category, testCases |-> <<>>]

\* line 188: tc['id'] = f"{category}-{idx}-{int(datetime.now().timestamp() * 1000)}"
WithId(tc, category, idx, ts) ==
  [key \in (DOMAIN tc) \cup {"id"} |->
     IF key = "id"
     THEN category \o "-" \o ToString(idx) \o "-" \o ToString(ts)
     ELSE tc[key]]

\* lines 186-189 for one category; now[reads + idx + 1] is the clock reading
\* taken for the test case at position idx
GroupWithIds(group, category, now, reads) ==
  IF "testCases" \in DOMAIN group
  THEN [group EXCEPT !["testCases"] =
          [i \in DOMAIN group["testCases"] |->
             WithId(group["testCases"][i], category, i - 1, now[reads + i])]]
  ELSE group

RECURSIVE ReadsBefore(_, _)
ReadsBefore(test_case_groups, c) ==
  IF c = 1 THEN 0
  ELSE ReadsBefore(test_case_groups, c - 1)
         + Len(Get(CategoryMap(test_case_groups, CATEGORIES[c - 1]), "testCases", <<>>))

\* Number of clock readings one call takes
ClockReads(test_case_groups) == ReadsBefore(test_case_groups, Len(CATEGORIES) + 1)

\* lines 171-191; now is the sequence of clock readings in the order taken
ensure_all_categories(test_case_groups, now) ==
  [c \in DOMAIN CATEGORIES |->
     GroupWithIds(CategoryMap(test_case_groups, CATEGORIES[c]), CATEGORIES[c],
                  now, ReadsBefore(test_case_groups, c))]

\* line 173 raises (TypeError / KeyError) when an element of the parsed
\* array is not a dict or has no 'category' key
EnsureRaises(val) ==
  \E i \in DOMAIN val.v :
     IF val.v[i].k = "dict" THEN "category" \notin DOMAIN val.v[i].v ELSE TRUE

\* The parsed array as the list of dicts ensure_all_categories iterates over
AsGroups(val) == [i \in DOMAIN val.v |-> val.v[i].v]

\* Non-decreasing sequences of n clock readings
ClockSeqs(n) ==
  {s \in [1..n -> 0..MaxClock] : \A i \in 1..n : \A j \in 1..n : i <= j => s[i] <= s[j]}

\* ---------------------------------------------------------- export_to_csv
\* line 208: ' | '.join(steps)
RECURSIVE Join(_, _)
Join(sep, steps) ==
  IF steps = <<>> THEN ""
  ELSE IF Len(steps) = 1 THEN steps[1]
  ELSE steps[1] \o sep \o Join(sep, Tail(steps))

\* Variant of CsvRow with an empty default priority
CsvRowNoPriorityDefault(group, tc) ==
  <<group["category"],
    Get(tc, "title", ""),
    Get(tc, "description", ""),
    Join(" | ", Get(tc, "steps", <<>>)),
    Get(tc, "expectedResult", ""),
    Get(tc, "priority", "")>>

\* lines 209-216: the row written for one test case
CsvRow(group, tc) ==
  <<group["category"],
    Get(tc, "title", ""),
    Get(tc, "description", ""),
    Join(" | ", Get(tc, "steps", <<>>)),
    Get(tc, "expectedResult", ""),
    Get(tc, "priority", "Medium")>>

\* line 207: the rows of one group
GroupRows(group) ==
  LET cases == Get(group, "testCases", <<>>) IN
  [i \in DOMAIN cases |-> CsvRow(group, cases[i])]

\* lines 197-218: the records handed to csv.writer, header first
RECURSIVE DataRows(_)
DataRows(test_case_groups) ==
  IF test_case_groups = <<>> THEN <<>>
  ELSE GroupRows(Head(test_case_groups)) \o DataRows(Tail(test_case_groups))

export_to_csv(test_case_groups) == <<CsvHeader>> \o DataRows(test_case_groups)

\* ------------------------------------------------------------------- state
VARIABLES
  ss_test_case_groups,  \* st.session_state.test_case_groups
  ss_prd_file_name,     \* st.session_state.prd_file_name
  uploaded_file,        \* the file in the uploader, None when there is none
  secrets,              \* GEMINI_API_KEY in the configuration store
  environ,              \* GEMINI_API_KEY in os.environ
  api_key_input,        \* the sidebar text input
  pc,                   \* position of the script run
  prd_text,             \* the extracted document text
  model_idx,            \* position of the loop in models_to_try
  last_error,           \* the failure reason recorded by the loop
  in_flight,            \* models with a generate_content call outstanding
  invoked,              \* models generate_content was called on, in order
  attempts,             \* per finished call: the model and whether line 159 returned
  last_attempt,         \* the last finished call: its model, how it ended, its value
  gen_result,           \* how generate_test_cases ended in this run
  messages,             \* st.info / st.warning / st.error / st.success shown
  caught,               \* sites whose exception an except clause caught
  pre,                  \* the session state when the run started
  fn_in,                \* argument of the function under test
  fn_out,               \* its result
  fn_pc                 \* whether the function under test has been applied

vars ==
  <<ss_test_case_groups, ss_prd_file_name, uploaded_file, secrets, environ,
    api_key_input, pc, prd_text, model_idx, last_error, in_flight, invoked,
    attempts, last_attempt, gen_result, messages, caught, pre, fn_in, fn_out, fn_pc>>

session == <<ss_test_case_groups, ss_prd_file_name>>
config == <<secrets, environ, api_key_input>>
locals ==
  <<prd_text, model_idx, last_error, in_flight, invoked, attempts, last_attempt, gen_result>>
fnvars == <<fn_in, fn_out, fn_pc>>

Files == {"a.docx", "b.docx"}
Keys == {"k"}
\* A whitespace character and "a" for any other character
DocChars == {" ", "a"}
DocTexts == SeqsUpTo(DocChars, MaxDocLen)

NoAttempt == [model |-> None, status |-> "none", val |-> PyList(<<>>)]

NoResult == [status |-> "none", val |-> PyList(<<>>), reason |-> None]

Msg(level, site) == [level |-> level, site |-> site]

\* A script run is in progress between the click and its end
Running == pc \in {"trying", "calling"}

\* lines 227-235: the sidebar sets the environment variable from the input
SidebarEnviron == IF api_key_input # "" THEN api_key_input ELSE environ

\* lines 101-108 with the environment the sidebar left; lookup_raises is
\* whether st.secrets.get raised
ResolveKey(lookup_raises, env) ==
  LET api_key == IF lookup_raises THEN None ELSE secrets IN
  IF Falsy(api_key) THEN env ELSE api_key

\* lines 20-24 and the first run of the sidebar
ProgramInit ==
  /\ ss_test_case_groups = <<>>
  /\ ss_prd_file_name = ""
  /\ uploaded_file = None
  /\ secrets \in {None, ""} \cup Keys
  /\ api_key_input = (IF secrets = None THEN "" ELSE secrets)
  /\ environ \in {IF api_key_input # "" THEN api_key_input ELSE e : e \in {None} \cup Keys}
  /\ pc = "idle"
  /\ prd_text = <<>>
  /\ model_idx = 1
  /\ last_error = None
  /\ in_flight = {}
  /\ invoked = <<>>
  /\ attempts = <<>>
  /\ last_attempt = NoAttempt
  /\ gen_result = NoResult
  /\ messages = {}
  /\ caught = {}
  /\ pre = [groups |-> <<>>, name |-> ""]

Init ==
  /\ ProgramInit
  /\ fn_in = <<>>
  /\ fn_out = <<>>
  /\ fn_pc = "unused"

\* ---------------------------------------------------------------- actions
\* A rerun without the button pressed: the page is redrawn from the session
\* state and nothing of the previous run's locals or messages remains
FreshRun ==
  /\ prd_text' = <<>>
  /\ model_idx' = 1
  /\ last_error' = None
  /\ in_flight' = {}
  /\ invoked' = <<>>
  /\ attempts' = <<>>
  /\ last_attempt' = NoAttempt
  /\ gen_result' = NoResult
  /\ messages' = {}
  /\ caught' = {}
  /\ pre' = [groups |-> ss_test_case_groups, name |-> ss_prd_file_name]

\* lines 246-250: the user puts a file in the uploader; the script reruns
\* without the button pressed
Upload(f) ==
  /\ ~Running
  /\ uploaded_file' = f
  /\ environ' = SidebarEnviron
  /\ pc' = "idle"
  /\ FreshRun
  /\ UNCHANGED <<session, secrets, api_key_input, fnvars>>

\* lines 227-235: the user edits the sidebar input; the script reruns
EnterKey(key) ==
  /\ ~Running
  /\ api_key_input' = key
  /\ environ' = (IF key # "" THEN key ELSE environ)
  /\ pc' = "idle"
  /\ FreshRun
  /\ UNCHANGED <<session, uploaded_file, secrets, fnvars>>

\* line 231: the sidebar's own st.secrets.get raises outside any try; the
\* run ends there with the uncaught exception shown, before line 235 and
\* before the handler
SidebarLookupFails ==
  /\ ~Running
  /\ pc' = "crashed"
  /\ prd_text' = <<>>
  /\ model_idx' = 1
  /\ last_error' = None
  /\ in_flight' = {}
  /\ invoked' = <<>>
  /\ attempts' = <<>>
  /\ last_attempt' = NoAttempt
  /\ gen_result' = NoResult
  /\ messages' = {Msg("error", "uncaught")}
  /\ caught' = {}
  /\ pre' = [groups |-> ss_test_case_groups, name |-> ss_prd_file_name]
  /\ UNCHANGED <<session, uploaded_file, config, fnvars>>

\* Common start of a run with the button pressed (lines 252-260)
ClickStart ==
  /\ ~Running
  /\ uploaded_file # None
  /\ environ' = SidebarEnviron
  /\ pre' = [groups |-> ss_test_case_groups, name |-> ss_prd_file_name]
  /\ model_idx' = 1
  /\ last_error' = None
  /\ in_flight' = {}
  /\ invoked' = <<>>
  /\ attempts' = <<>>
  /\ last_attempt' = NoAttempt
  /\ UNCHANGED <<uploaded_file, secrets, api_key_input, fnvars>>

\* lines 262, 90-97, 289-305: extraction raises; the handler reports and stops
ClickExtractFails ==
  /\ ClickStart
  /\ prd_text' = <<>>
  /\ gen_result' = NoResult
  /\ caught' = {"extraction"}
  /\ messages' = {Msg("error", "extraction"), Msg("info", "tip")}
  /\ pc' = "failed"
  /\ UNCHANGED session

\* lines 262-266: the extracted text is blank; st.error and st.stop
ClickBlank(text) ==
  /\ ClickStart
  /\ IsBlank(text)
  /\ prd_text' = text
  /\ gen_result' = NoResult
  /\ caught' = {}
  /\ messages' = {Msg("error", "empty_document")}
  /\ pc' = "stopped"
  /\ UNCHANGED session

\* The exceptions swallowed at lines 102-105
LookupCaught(lookup_raises) == IF lookup_raises THEN {"credential_lookup"} ELSE {}

\* lines 262-275, 101-111, 289-305: no credential; generate_test_cases raises
ClickNoKey(text, lookup_raises) ==
  /\ ClickStart
  /\ ~IsBlank(text)
  /\ Falsy(ResolveKey(lookup_raises, SidebarEnviron))
  /\ prd_text' = text
  /\ ss_prd_file_name' = uploaded_file
  /\ gen_result' = [status |-> "raised", val |-> PyList(<<>>), reason |-> "missing_credential"]
  /\ caught' = LookupCaught(lookup_raises) \cup {"missing_credential"}
  /\ messages' = {Msg("error", "missing_credential"), Msg("info", "tip")}
  /\ pc' = "failed"
  /\ UNCHANGED ss_test_case_groups

\* lines 113-116, 289-305: genai.configure raises
ClickConfigureFails(text, lookup_raises) ==
  /\ ClickStart
  /\ ~IsBlank(text)
  /\ ~Falsy(ResolveKey(lookup_raises, SidebarEnviron))
  /\ prd_text' = text
  /\ ss_prd_file_name' = uploaded_file
  /\ gen_result' = [status |-> "raised", val |-> PyList(<<>>), reason |-> "configure"]
  /\ caught' = LookupCaught(lookup_raises) \cup {"configure"}
  /\ messages' = {Msg("error", "configure"), Msg("info", "tip")}
  /\ pc' = "failed"
  /\ UNCHANGED ss_test_case_groups

\* lines 262-123: the run reaches the loop over models_to_try
ClickGenerate(text, lookup_raises) ==
  /\ ClickStart
  /\ ~IsBlank(text)
  /\ ~Falsy(ResolveKey(lookup_raises, SidebarEnviron))
  /\ prd_text' = text
  /\ ss_prd_file_name' = uploaded_file
  /\ gen_result' = NoResult
  /\ caught' = LookupCaught(lookup_raises)
  /\ messages' = {}
  /\ pc' = "trying"
  /\ UNCHANGED ss_test_case_groups

\* line 124: the model the loop is at, and the position the loop moves to
\* when an except clause ends with continue
ModelAt(idx) == models_to_try[idx]

\* Variants of LoopAdvance: one skips a model, one stays on the same model
LoopAdvanceSkip(idx) == idx + 2

LoopAdvanceRetry(idx) == idx

LoopAdvance(idx) == idx + 1

\* lines 126-140: st.info, then the blocking generate_content call starts
CallStart ==
  /\ pc = "trying"
  /\ in_flight' = in_flight \cup {ModelAt(model_idx)}
  /\ invoked' = Append(invoked, ModelAt(model_idx))
  /\ messages' = messages \cup {Msg("info", ModelAt(model_idx))}
  /\ pc' = "calling"
  /\ UNCHANGED <<session, uploaded_file, config, prd_text, model_idx, last_error,
                 attempts, last_attempt, gen_result, caught, pre, fnvars>>

\* line 146: st.info once the response carries text
ParsingInfo(it) == IF it.parsing THEN {Msg("info", "parsing")} ELSE {}

\* The call returns; the common part of every way the iteration ends
CallEnd ==
  /\ pc = "calling"
  /\ in_flight' = in_flight \ {ModelAt(model_idx)}
  /\ UNCHANGED <<uploaded_file, config, prd_text, invoked, pre, fnvars>>

\* lines 159, 276-287: the array is returned, normalised and stored
ReturnStore(it) ==
  LET r == it.r IN
  /\ CallEnd
  /\ r.status = "return"
  /\ ~EnsureRaises(r.val)
  /\ \E now \in ClockSeqs(ClockReads(AsGroups(r.val))) :
        ss_test_case_groups' = ensure_all_categories(AsGroups(r.val), now)
  /\ attempts' = Append(attempts, [model |-> ModelAt(model_idx), returned |-> r.status = "return"])
  /\ last_attempt' = [model |-> ModelAt(model_idx), status |-> r.status, val |-> r.val]
  /\ gen_result' = [status |-> "returned", val |-> r.val, reason |-> None]
  /\ messages' = messages \cup ParsingInfo(it) \cup {Msg("success", "generated")}
  /\ pc' = "done"
  /\ UNCHANGED <<ss_prd_file_name, model_idx, last_error, caught>>

\* lines 159, 280, 289-305: the array is returned, ensure_all_categories raises
ReturnNormalizeFails(it) ==
  LET r == it.r IN
  /\ CallEnd
  /\ r.status = "return"
  /\ EnsureRaises(r.val)
  /\ attempts' = Append(attempts, [model |-> ModelAt(model_idx), returned |-> r.status = "return"])
  /\ last_attempt' = [model |-> ModelAt(model_idx), status |-> r.status, val |-> r.val]
  /\ gen_result' = [status |-> "returned", val |-> r.val, reason |-> None]
  /\ caught' = caught \cup {"normalization"}
  /\ messages' = messages \cup ParsingInfo(it)
                   \cup {Msg("error", "normalization"), Msg("info", "tip")}
  /\ pc' = "failed"
  /\ UNCHANGED <<session, model_idx, last_error>>

\* lines 160-167: the iteration fails and the loop continues with the next model
FailContinue(it) ==
  LET r == it.r IN
  /\ CallEnd
  /\ r.status # "return"
  /\ LoopAdvance(model_idx) <= Len(models_to_try)
  /\ last_error' = r.status
  /\ model_idx' = LoopAdvance(model_idx)
  /\ attempts' = Append(attempts, [model |-> ModelAt(model_idx), returned |-> r.status = "return"])
  /\ last_attempt' = [model |-> ModelAt(model_idx), status |-> r.status, val |-> r.val]
  /\ caught' = caught \cup {ModelAt(model_idx)}
  /\ messages' = messages \cup ParsingInfo(it) \cup {Msg("warning", ModelAt(model_idx))}
  /\ pc' = "trying"
  /\ UNCHANGED <<session, gen_result>>

\* lines 160-169, 289-305: the last iteration fails; the loop ends and
\* generate_test_cases raises with the last recorded reason
FailExhausted(it) ==
  LET r == it.r IN
  /\ CallEnd
  /\ r.status # "return"
  /\ LoopAdvance(model_idx) > Len(models_to_try)
  /\ last_error' = r.status
  /\ attempts' = Append(attempts, [model |-> ModelAt(model_idx), returned |-> r.status = "return"])
  /\ last_attempt' = [model |-> ModelAt(model_idx), status |-> r.status, val |-> r.val]
  /\ gen_result' = [status |-> "raised", val |-> PyList(<<>>), reason |-> last_error']
  /\ caught' = caught \cup {ModelAt(model_idx), "exhausted"}
  /\ messages' = messages \cup ParsingInfo(it)
                   \cup {Msg("warning", ModelAt(model_idx)),
                         Msg("error", "exhausted"), Msg("info", "tip")}
  /\ pc' = "failed"
  /\ UNCHANGED <<session, model_idx>>

Next ==
  \/ \E f \in Files : Upload(f)
  \/ \E key \in {""} \cup Keys : EnterKey(key)
  \/ SidebarLookupFails
  \/ ClickExtractFails
  \/ \E text \in DocTexts : ClickBlank(text)
  \/ \E text \in DocTexts, lookup_raises \in BOOLEAN : ClickNoKey(text, lookup_raises)
  \/ \E text \in DocTexts, lookup_raises \in BOOLEAN : ClickConfigureFails(text, lookup_raises)
  \/ \E text \in DocTexts, lookup_raises \in BOOLEAN : ClickGenerate(text, lookup_raises)
  \/ CallStart
  \/ \E it \in IterationResults : ReturnStore(it)
  \/ \E it \in IterationResults : ReturnNormalizeFails(it)
  \/ \E it \in IterationResults : FailContinue(it)
  \/ \E it \in IterationResults : FailExhausted(it)

Spec == Init /\ [][Next]_vars

\* ------------------------------------- ensure_all_categories on its own
RawCategories == {"Positive", "Usability", "Other"}

tcA == [title |-> "A"]
tcB == [title |-> "B", steps |-> <<"s1", "s2">>]

RawGroups ==
  {[category |-> c] : c \in RawCategories}
    \cup {[category |-> c, testCases |-> cases] :
            c \in RawCategories, cases \in {<<>>, <<tcA>>, <<tcB, tcA>>}}

\* The program part held still while a function is exercised on its own
ProgramIdle ==
  /\ ProgramInit
  /\ secrets = None
  /\ environ = None

NormInit ==
  /\ ProgramIdle
  /\ fn_in \in SeqsUpTo(RawGroups, MaxGroups)
  /\ fn_out = <<>>
  /\ fn_pc = "norm_in"

program ==
  <<session, uploaded_file, config, pc, locals, messages, caught, pre>>

Normalize ==
  /\ fn_pc = "norm_in"
  /\ \E now \in ClockSeqs(ClockReads(fn_in)) :
        fn_out' = ensure_all_categories(fn_in, now)
  /\ fn_pc' = "norm_out"
  /\ UNCHANGED <<fn_in, program>>

NormNext == Normalize

NormSpec == NormInit /\ [][NormNext]_vars

\* ---------------------------------------------- export_to_csv on its own
CsvCases ==
  {[title |-> "T1", description |-> "D1", steps |-> <<"s1", "s2">>,
    expectedResult |-> "E1", priority |-> "High"],
   [title |-> "T2", steps |-> <<"s1">>],
   [steps |-> <<>>, priority |-> "Low"]}

CsvGroups ==
  {[category |-> "Positive"], [category |-> "Other"],
   [category |-> "Other", testCases |-> <<>>]}
    \cup {[category |-> "Positive", testCases |-> cases] :
            cases \in SeqsUpTo(CsvCases, MaxCases)}

CsvInit ==
  /\ ProgramIdle
  /\ fn_in \in SeqsUpTo(CsvGroups, MaxCsvGroups)
  /\ fn_out = <<>>
  /\ fn_pc = "csv_in"

Export ==
  /\ fn_pc = "csv_in"
  /\ fn_out' = export_to_csv(fn_in)
  /\ fn_pc' = "csv_out"
  /\ UNCHANGED <<fn_in, program>>

CsvNext == Export

CsvSpec == CsvInit /\ [][CsvNext]_vars

\* ============================================================ properties
FailureKinds == {"call_raised", "empty_response", "json_decode", "invalid_format"}

FirstReturn ==
  CHOOSE i \in DOMAIN attempts :
    /\ attempts[i].returned
    /\ \A j \in DOMAIN attempts : attempts[j].returned => i <= j

\* C1: the models are invoked strictly in list order, and the first model
\* whose response parses to a non-empty JSON array ends the loop: its array
\* is the value returned and no later model is invoked.
C1_FirstSuccessWins ==
  /\ Len(invoked) <= 3
  /\ invoked = SubSeq(<<"gemini-2.5-flash", "gemini-2.5-pro", "gemini-pro">>, 1, Len(invoked))
  /\ \A i \in DOMAIN attempts : attempts[i].model = invoked[i]
  /\ (\E i \in DOMAIN attempts : attempts[i].returned) =>
        /\ gen_result.status = "returned"
        /\ Len(invoked) = FirstReturn
        /\ Len(attempts) = FirstReturn
        /\ last_attempt.model = invoked[FirstReturn]
        /\ last_attempt.status = "return"
        /\ gen_result.val = last_attempt.val
        /\ in_flight = {}
        /\ pc \in {"done", "failed"}
  /\ gen_result.status = "returned" =>
        \E i \in DOMAIN attempts : attempts[i].returned

C1_Witness ==
  /\ gen_result.status = "returned"
  /\ Len(attempts) = 3
  /\ ~attempts[1].returned
  /\ ~attempts[2].returned
  /\ last_error = "json_decode"
  /\ pc = "done"

\* C2: when every model fails the call ends in failure with the reason
\* recorded for the last model tried, and every value returned as a success
\* is a non-empty array.
C2_ExhaustionFails ==
  /\ (/\ Len(attempts) = 3
      /\ \A i \in DOMAIN attempts : ~attempts[i].returned) =>
        /\ gen_result.status = "raised"
        /\ last_attempt.model = "gemini-pro"
        /\ last_attempt.status \in FailureKinds
        /\ gen_result.reason = last_attempt.status
        /\ pc = "failed"
        /\ Msg("error", "exhausted") \in messages
        /\ ss_test_case_groups = pre.groups
  /\ gen_result.status = "returned" =>
        /\ gen_result.val.k = "list"
        /\ Len(gen_result.val.v) >= 1

C2_Witness ==
  /\ gen_result.status = "raised"
  /\ Len(attempts) = 3
  /\ last_attempt.status = "invalid_format"
  /\ gen_result.reason = "invalid_format"

AllWhitespace(text) == \A i \in DOMAIN text : text[i] \in {" ", "\n"}

ExtractionDone == pc \notin {"idle", "crashed"} /\ "extraction" \notin caught

\* C3: a document that is blank after trimming is rejected with an error
\* message before the generator is reached: no model call is made for it.
C3_BlankRejected ==
  (ExtractionDone /\ AllWhitespace(prd_text)) =>
     /\ pc = "stopped"
     /\ Msg("error", "empty_document") \in messages
     /\ invoked = <<>>
     /\ in_flight = {}
     /\ attempts = <<>>
     /\ gen_result.status = "none"

C3_Witness ==
  /\ pc = "stopped"
  /\ Len(prd_text) >= 1
  /\ AllWhitespace(prd_text)
  /\ environ = "k"

NoCredential == secrets \notin {"k"} /\ environ \notin {"k"}

\* C4: with no credential in the configuration store or in the environment
\* variable, generation aborts with a configuration error before any model
\* call, and the error is reported by the handler.
C4_MissingCredential ==
  (ExtractionDone /\ ~AllWhitespace(prd_text) /\ NoCredential) =>
     /\ pc = "failed"
     /\ gen_result.status = "raised"
     /\ gen_result.reason = "missing_credential"
     /\ Msg("error", "missing_credential") \in messages
     /\ invoked = <<>>
     /\ in_flight = {}
     /\ attempts = <<>>

C4_Witness ==
  /\ pc = "failed"
  /\ gen_result.reason = "missing_credential"
  /\ secrets = ""
  /\ environ = None
  /\ invoked = <<>>

\* C6: after a failed generation attempt the stored test-case groups and the
\* stored source file name are what they were when the attempt started.
C6_FailureLeavesSession ==
  pc = "failed" =>
     /\ ss_test_case_groups = pre.groups
     /\ ss_prd_file_name = pre.name

\* C7: every exception caught on the generation path has a warning or an
\* error message shown for it.
C7_NoSilentError ==
  \A site \in caught :
     \E m \in messages : m.site = site /\ m.level \in {"warning", "error"}

NoDuplicates(seq) ==
  \A i \in DOMAIN seq : \A j \in DOMAIN seq : seq[i] = seq[j] => i = j

\* Steps of the loop taken so far: two per finished call, one for a call
\* that has started
Progress == Len(attempts) + Len(invoked)

\* C9: the loop is a linear chain.  Every kind of failure records its reason
\* and moves to the next model (or ends the invocation after the last one),
\* no model is invoked twice, at most one call is outstanding, and each step
\* of the loop increases a measure bounded by twice the number of models, so
\* a terminal state is reached after at most that many calls.
C9_State ==
  /\ Cardinality(in_flight) <= 1
  /\ NoDuplicates(invoked)
  /\ Len(invoked) <= Len(models_to_try)
  /\ Len(attempts) <= Len(invoked)
  /\ Len(invoked) <= Len(attempts) + 1
  /\ pc = "calling" <=> Cardinality(in_flight) = 1
  /\ pc = "calling" => in_flight = {invoked[Len(invoked)]}
  /\ pc = "trying" => Len(invoked) < Len(models_to_try) /\ Len(attempts) = Len(invoked)
  /\ last_attempt.status \in FailureKinds =>
        /\ last_attempt.model = invoked[Len(attempts)]
        /\ last_error = last_attempt.status
        /\ \/ pc \in {"trying", "calling"} /\ model_idx = Len(attempts) + 1
           \/ pc = "failed" /\ Len(attempts) = Len(models_to_try)

C9_Step ==
  (pc \in {"trying", "calling"}) =>
     /\ Progress' = Progress + 1
     /\ pc' \in {"trying", "calling", "done", "failed"}
     /\ pc = "calling" /\ pc' = "trying" => model_idx' = model_idx + 1

C9_LinearChain == [](C9_State) /\ [][C9_Step]_vars

C9_Witness ==
  /\ pc = "trying"
  /\ model_idx = 3
  /\ Len(attempts) = 2
  /\ last_attempt.status = "empty_response"
  /\ last_error = "empty_response"

\* ---- ensure_all_categories
InputCategories == {fn_in[i]["category"] : i \in DOMAIN fn_in}

\* C5: the result has exactly 8 groups, one per fixed category in the fixed
\* order, and a category absent from the input has testCases = [].
C5_EightGroups ==
  fn_pc = "norm_out" =>
     /\ Len(fn_out) = 8
     /\ [c \in 1..8 |-> fn_out[c]["category"]] =
          <<"Positive", "Negative", "Edge Cases", "Boundary",
            "Integration", "Performance", "Security", "Usability">>
     /\ \A c \in 1..8 :
          fn_out[c]["category"] \notin InputCategories =>
             /\ DOMAIN fn_out[c] = {"category", "testCases"}
             /\ fn_out[c]["testCases"] = <<>>

C5_Witness ==
  /\ fn_pc = "norm_out"
  /\ Len(fn_in) = 3
  /\ fn_in[1]["category"] = "Usability"
  /\ fn_in[2]["category"] = "Other"
  /\ fn_in[3]["category"] = "Usability"
  /\ Len(fn_out) = 8

WithoutId(tc) == [key \in (DOMAIN tc) \ {"id"} |-> tc[key]]

WithoutIds(group) ==
  IF "testCases" \in DOMAIN group
  THEN [group EXCEPT !["testCases"] =
          [i \in DOMAIN group["testCases"] |-> WithoutId(group["testCases"][i])]]
  ELSE group

LastOccurrence(category) ==
  fn_in[CHOOSE i \in DOMAIN fn_in :
          /\ fn_in[i]["category"] = category
          /\ \A j \in DOMAIN fn_in : j > i => fn_in[j]["category"] # category]

Occurrences(category) == {i \in DOMAIN fn_in : fn_in[i]["category"] = category}

\* C10: for a category given more than once, the output group is the last
\* occurrence (with ids added): the test cases of earlier occurrences are
\* neither merged in nor present anywhere in the output.
C10_LastOccurrenceWins ==
  fn_pc = "norm_out" =>
     \A c \in DOMAIN fn_out :
        Cardinality(Occurrences(fn_out[c]["category"])) >= 2 =>
           /\ WithoutIds(fn_out[c]) = LastOccurrence(fn_out[c]["category"])
           /\ Len(Get(fn_out[c], "testCases", <<>>)) =
                Len(Get(LastOccurrence(fn_out[c]["category"]), "testCases", <<>>))

C10_Witness ==
  /\ fn_pc = "norm_out"
  /\ Len(fn_in) = 3
  /\ fn_in[1] = [category |-> "Positive", testCases |-> <<tcB, tcA>>]
  /\ fn_in[3] = [category |-> "Positive", testCases |-> <<tcA>>]
  /\ Len(fn_out[1]["testCases"]) = 1

\* ---- export_to_csv
CaseCount(group) == IF "testCases" \in DOMAIN group THEN Len(group["testCases"]) ELSE 0

RECURSIVE RowsBefore(_)
RowsBefore(g) == IF g = 1 THEN 0 ELSE RowsBefore(g - 1) + CaseCount(fn_in[g - 1])

Field(tc, key, missing) == IF key \in DOMAIN tc THEN tc[key] ELSE missing

StepsCell(tc) ==
  IF "steps" \notin DOMAIN tc \/ tc["steps"] = <<>> THEN ""
  ELSE IF Len(tc["steps"]) = 1 THEN tc["steps"][1]
  ELSE tc["steps"][1] \o " | " \o tc["steps"][2]

\* C8: the header row is followed by exactly one row per test case, groups
\* and test cases in their given order; a row holds the group's category,
\* the steps joined with " | ", "" for a missing title, description or
\* expected result and "Medium" for a missing priority; a group without
\* test cases adds no row.
C8_CsvRows ==
  fn_pc = "csv_out" =>
     /\ fn_out[1] = <<"Category", "Title", "Description", "Steps",
                      "Expected Result", "Priority">>
     /\ Len(fn_out) = 1 + RowsBefore(Len(fn_in) + 1)
     /\ \A g \in DOMAIN fn_in :
          \A i \in 1..CaseCount(fn_in[g]) :
             LET tc == fn_in[g]["testCases"][i] IN
             fn_out[1 + RowsBefore(g) + i] =
               <<fn_in[g]["category"], Field(tc, "title", ""),
                 Field(tc, "description", ""), StepsCell(tc),
                 Field(tc, "expectedResult", ""), Field(tc, "priority", "Medium")>>

C8_Witness ==
  /\ fn_pc = "csv_out"
  /\ Len(fn_in) = 2
  /\ fn_in[1] = [category |-> "Other", testCases |-> <<>>]
  /\ CaseCount(fn_in[2]) = 2
  /\ Len(fn_out) = 3
  /\ fn_out[2][4] = "s1 | s2"
  /\ fn_out[3][3] = ""
  /\ fn_out[3][6] = "Medium"

====
